---- MODULE Spec2Model ----
(***************************************************************************)
(* libavcodec/libmp3lame.c: the adapter between the codec framework and    *)
(* libmp3lame.  The state is one Mp3AudioContext (gfp, buffer,             *)
(* buffer_index) plus the fields of AVCodecContext the adapter touches.    *)
(* libmp3lame itself is external: every call into it is modelled by the    *)
(* results it may return and the bytes it may write into the space it was  *)
(* given.                                                                  *)
(***************************************************************************)
EXTENDS Integers, Sequences, FiniteSets, TLC

\* ---------------------------------------------------------------- bounds
\* Capacity of Mp3AudioContext.buffer.  The source sets it to
\* 7200 + 2 * MPA_FRAME_SIZE + MPA_FRAME_SIZE / 4 bytes; the model keeps the
\* same role with a capacity small enough to enumerate the buffer contents.
BUFFER_SIZE == 8

\* Most bytes libmp3lame writes in one call.
MaxWrite == 5

\* Most bytes libmp3lame writes over a whole session.
MaxProduced == 9

\* ------------------------------------------------------- byte alphabet
\* Bytes libmp3lame emits.  In the second header byte 16 sets the version
\* bit; in the third header byte 16 is bitrate index 1 and 0 is bitrate
\* index 0 (free format).
Byte == {0, 16}

\* Output capacities (buf_size) the caller passes to the encode callback.
BufSizes == {4, BUFFER_SIZE}

Min(a, b) == IF a < b THEN a ELSE b

\* ------------------------------------------------------ header parser
\* AV_RB32(s->buffer): the first four bytes as a big-endian 32-bit word.
AV_RB32(buf) == ((buf[0] * 256 + buf[1]) * 256 + buf[2]) * 256 + buf[3]

\* Version bit, bitrate index and padding bit of a header word.
hdr_version(header) == (header \div 1048576) % 2
hdr_bitrate_index(header) == (header \div 4096) % 16
hdr_padding(header) == (header \div 512) % 2

\* avpriv_mpegaudio_decode_header: nonzero (rejected) for a free-format
\* header, else 0 with hdr.frame_size set.
avpriv_mpegaudio_decode_header(header) ==
    IF hdr_bitrate_index(header) = 0 THEN 1 ELSE 0

\* hdr.frame_size of an accepted header: the total frame length in bytes,
\* header included.  It grows with the bitrate index, the version bit and
\* the padding bit; the lengths are scaled to the model's buffer (4 or 5).
hdr_frame_size(header) ==
    4 * hdr_bitrate_index(header) + hdr_version(header) + hdr_padding(header)

\* --------------------------------------------------- MP3lame_encode_frame
\* The space handed to libmp3lame: BUFFER_SIZE - s->buffer_index.
FreeBytes_whole(idx) == BUFFER_SIZE
FreeBytes(idx) == BUFFER_SIZE - idx

\* What libmp3lame leaves in s->buffer: the bytes w at s->buffer + idx.
LameOutput_front(buf, idx, w) ==
    [i \in DOMAIN buf |-> IF i < Len(w) THEN w[i + 1] ELSE buf[i]]
LameOutput(buf, idx, w) ==
    [i \in DOMAIN buf |->
        IF i >= idx /\ i < idx + Len(w) THEN w[i - idx + 1] ELSE buf[i]]

\* s->buffer_index when libmp3lame reported r < 0: the function returns
\* before the index is touched.
IndexOnLameError_added(idx, r) == idx + r
IndexOnLameError(idx, r) == idx

\* s->buffer_index += lame_result
IndexAfterAppend_lost(idx, r) == idx
IndexAfterAppend(idx, r) == idx + r

\* if (s->buffer_index < 4) return 0;
HeaderBuffered_three(idx) == idx >= 3
HeaderBuffered(idx) == idx >= 4

\* s->buffer_index when the header is rejected: the function returns with
\* the buffer as it is.
IndexOnReject_dropped(idx) == 0
IndexOnReject(idx) == idx

\* if (len <= s->buffer_index)
CanExtract_always(len, idx) == TRUE
CanExtract(len, idx) == len <= idx

\* memcpy(frame, s->buffer, len).  A read past the end of the buffer is
\* undefined; the code never does one, and the model reads 0 there.
memcpy(buf, len) ==
    [i \in 1..len |-> IF (i - 1) \in DOMAIN buf THEN buf[i - 1] ELSE 0]

\* s->buffer_index -= len
IndexAfterExtract_kept(idx, len) == idx
IndexAfterExtract(idx, len) == idx - len

\* memmove(s->buffer, s->buffer + len, n)
memmove_short(buf, len, n) ==
    [i \in DOMAIN buf |->
        IF i < n - 1 /\ (i + len) \in DOMAIN buf THEN buf[i + len] ELSE buf[i]]
memmove(buf, len, n) ==
    [i \in DOMAIN buf |->
        IF i < n /\ (i + len) \in DOMAIN buf THEN buf[i + len] ELSE buf[i]]

\* The whole callback.  buf, idx: s->buffer, s->buffer_index on entry;
\* buf_size: the capacity of the caller's frame buffer, which the function
\* never reads; r: lame_result; w: the bytes libmp3lame wrote at
\* s->buffer + idx.
\* err names the return statement taken: "lame" (the return -1 after
\* lame_result < 0, whether or not the "output buffer too small" message
\* was logged), "header" (the return -1 after the header was rejected),
\* "none" otherwise.  held and avail are the buffer and the number of its
\* valid bytes when the call decides what to hand back (on a libmp3lame
\* error: as on entry); avail and len are the values av_dlog prints (index,
\* packet-len).
MP3lame_encode_frame(buf, idx, buf_size, r, w) ==
    LET b1 == LameOutput(buf, idx, w) IN
    IF r < 0
    THEN [buffer |-> b1, buffer_index |-> IndexOnLameError(idx, r),
          ret |-> -1, err |-> "lame",
          frame |-> <<>>, held |-> buf, avail |-> idx, len |-> 0]
    ELSE
    LET i1 == IndexAfterAppend(idx, r) IN
    IF ~HeaderBuffered(i1)
    THEN [buffer |-> b1, buffer_index |-> i1, ret |-> 0, err |-> "none",
          frame |-> <<>>, held |-> b1, avail |-> i1, len |-> 0]
    ELSE
    IF avpriv_mpegaudio_decode_header(AV_RB32(b1)) # 0
    THEN [buffer |-> b1, buffer_index |-> IndexOnReject(i1), ret |-> -1,
          err |-> "header",
          frame |-> <<>>, held |-> b1, avail |-> i1, len |-> 0]
    ELSE
    LET len == hdr_frame_size(AV_RB32(b1)) IN
    IF CanExtract(len, i1)
    THEN [buffer |-> memmove(b1, len, IndexAfterExtract(i1, len)),
          buffer_index |-> IndexAfterExtract(i1, len),
          ret |-> len, err |-> "none",
          frame |-> memcpy(b1, len), held |-> b1, avail |-> i1, len |-> len]
    ELSE [buffer |-> b1, buffer_index |-> i1, ret |-> 0, err |-> "none",
          frame |-> <<>>, held |-> b1, avail |-> i1, len |-> len]

\* ------------------------------------------- MP3lame_encode_close / init
\* MP3lame_encode_close: av_freep(&avctx->coded_frame); lame_close(s->gfp).
\* closes counts the lame_close calls made on the handle.
MP3lame_encode_close(closes) ==
    [gfp |-> "closed", lame_closes |-> closes + 1, coded_frame |-> "null"]

\* The error label of MP3lame_encode_init: MP3lame_encode_close(avctx);
\* return ret.
InitError_leak(ret, cf) ==
    [ret |-> ret, gfp |-> "live", lame_inits |-> 1, lame_closes |-> 0,
     coded_frame |-> cf]
InitError(ret, cf) ==
    LET c == MP3lame_encode_close(0) IN
    [ret |-> ret, gfp |-> c.gfp, lame_inits |-> 1,
     lame_closes |-> c.lame_closes, coded_frame |-> c.coded_frame]

\* AVERROR(EINVAL), AVERROR(ENOMEM)
AVERROR_EINVAL == -22
AVERROR_ENOMEM == -12

\* MP3lame_encode_init.  ch: avctx->channels; okInit: lame_init returned a
\* handle; okParams: lame_init_params returned >= 0; okAlloc:
\* avcodec_alloc_frame returned a frame.
MP3lame_encode_init(ch, okInit, okParams, okAlloc) ==
    IF ch > 2
    THEN [ret |-> AVERROR_EINVAL, gfp |-> "null", lame_inits |-> 0,
          lame_closes |-> 0, coded_frame |-> "null"]
    ELSE IF ~okInit
    THEN [ret |-> AVERROR_ENOMEM, gfp |-> "null", lame_inits |-> 0,
          lame_closes |-> 0, coded_frame |-> "null"]
    ELSE IF ~okParams
    THEN InitError(-1, "null")
    ELSE IF ~okAlloc
    THEN InitError(AVERROR_ENOMEM, "null")
    ELSE [ret |-> 0, gfp |-> "live", lame_inits |-> 1, lame_closes |-> 0,
          coded_frame |-> "alloc"]

\* ------------------------------------------------------------- state
VARIABLES
    phase,          \* "new", "open", "failed" (init returned an error), "closed"
    channels,       \* avctx->channels
    gfp,            \* s->gfp: "null", "live" or "closed"
    lame_inits,     \* handles lame_init has created
    lame_closes,    \* lame_close calls made on a handle
    coded_frame,    \* avctx->coded_frame: "null" or "alloc"
    init_ret,       \* what MP3lame_encode_init returned
    buffer,         \* s->buffer
    buffer_index,   \* s->buffer_index
    last,           \* the last MP3lame_encode_frame call: arguments and result
    produced,       \* every byte libmp3lame wrote, in order
    delivered,      \* every frame handed back, concatenated
    drained,        \* latest consecutive flush calls in which libmp3lame wrote 0
                    \* bytes, counted up to DrainCalls
    rejected        \* a call has failed on a rejected header

vars == <<phase, channels, gfp, lame_inits, lame_closes, coded_frame, init_ret,
          buffer, buffer_index, last, produced, delivered, drained, rejected>>

\* Consecutive flush calls without new bytes after which nothing is left to
\* hand back: a frame is never shorter than its 4-byte header, so at most
\* BUFFER_SIZE \div 4 whole frames are buffered at once.
DrainCalls == (BUFFER_SIZE \div 4) + 1

\* The valid bytes of the holding buffer: positions 0 .. idx-1.
Valid(buf, idx) == [i \in 1..idx |-> buf[i - 1]]

\* Nothing called yet.
NoCall ==
    [buf_size |-> 0, held |-> [i \in 0..(BUFFER_SIZE - 1) |-> 0],
     ret |-> 0, err |-> "none",
     frame |-> <<>>, avail |-> 0, len |-> 0]

\* priv_data is allocated zeroed by the framework before init is called.
Init ==
    /\ phase = "new"
    /\ channels = 0
    /\ gfp = "null"
    /\ lame_inits = 0
    /\ lame_closes = 0
    /\ coded_frame = "null"
    /\ init_ret = 0
    /\ buffer = [i \in 0..(BUFFER_SIZE - 1) |-> 0]
    /\ buffer_index = 0
    /\ last = NoCall
    /\ produced = <<>>
    /\ delivered = <<>>
    /\ drained = 0
    /\ rejected = FALSE

\* The framework opens the codec: MP3lame_encode_init.
EncodeInit ==
    /\ phase = "new"
    /\ \E ch \in 1..3, okInit \in BOOLEAN, okParams \in BOOLEAN, okAlloc \in BOOLEAN :
         LET res == MP3lame_encode_init(ch, okInit, okParams, okAlloc) IN
         /\ channels' = ch
         /\ gfp' = res.gfp
         /\ lame_inits' = res.lame_inits
         /\ lame_closes' = res.lame_closes
         /\ coded_frame' = res.coded_frame
         /\ init_ret' = res.ret
         /\ phase' = IF res.ret = 0 THEN "open" ELSE "failed"
    /\ UNCHANGED <<buffer, buffer_index, last, produced, delivered, drained,
                   rejected>>

\* What libmp3lame may return for a call that was given the space at
\* s->buffer + idx: a negative error, or the number of bytes it wrote, at
\* most the space it was given.
LameResults(idx) ==
    {-2, -1} \cup
    (0..Min(Min(FreeBytes(idx), MaxWrite), MaxProduced - Len(produced)))

\* The bytes libmp3lame may leave in the buffer for result r: the r bytes
\* it reports, or, when it fails, nothing or a byte of partial output.
LameBytes(idx, r) ==
    IF r >= 0 THEN [1..r -> Byte]
    ELSE IF FreeBytes(idx) > 0 THEN {<<>>} \cup {<<b>> : b \in Byte} ELSE {<<>>}

\* One call of the encode callback; op is "encode" (data != NULL:
\* lame_encode_buffer_interleaved for 2 channels, lame_encode_buffer for 1)
\* or "flush" (data == NULL: lame_encode_flush).  The three entry points
\* get the same output space and differ only in what libmp3lame does
\* inside.  last.buf_size is the buf_size of a call that copied a frame out.
EncodeCall(op) ==
    /\ phase = "open"
    /\ \E bsz \in BufSizes, r \in LameResults(buffer_index) :
       \E w \in LameBytes(buffer_index, r) :
         \E res \in {MP3lame_encode_frame(buffer, buffer_index, bsz, r, w)} :
         /\ buffer' = res.buffer
         /\ buffer_index' = res.buffer_index
         /\ last' = [buf_size |-> IF res.ret > 0 THEN bsz ELSE 0,
                     held |-> res.held,
                     ret |-> res.ret, err |-> res.err, frame |-> res.frame,
                     avail |-> res.avail, len |-> res.len]
         /\ produced' = IF r >= 0 THEN produced \o w ELSE produced
         /\ delivered' = delivered \o res.frame
         /\ drained' = IF op = "flush" /\ r = 0
                       THEN Min(drained + 1, DrainCalls) ELSE 0
         /\ rejected' = (rejected \/ res.err = "header")
    /\ UNCHANGED <<phase, channels, gfp, lame_inits, lame_closes, coded_frame,
                   init_ret>>

Encode == EncodeCall("encode")

Flush == EncodeCall("flush")

\* The framework closes the codec: MP3lame_encode_close, called once.
Close ==
    /\ phase = "open"
    /\ LET c == MP3lame_encode_close(lame_closes) IN
         /\ gfp' = c.gfp
         /\ lame_closes' = c.lame_closes
         /\ coded_frame' = c.coded_frame
    /\ phase' = "closed"
    /\ UNCHANGED <<channels, lame_inits, init_ret, buffer, buffer_index, last,
                   produced, delivered, drained, rejected>>

Next == EncodeInit \/ Encode \/ Flush \/ Close

Spec == Init /\ [][Next]_vars

\* ------------------------------------------------------------ claims
\* The valid bytes of the buffer when the last call decided what to hand
\* back: after the append, before any extraction.
Held == Valid(last.held, last.avail)

\* C1: after init and any sequence of encode and flush calls, successful or
\* failing, 0 <= buffer_index <= BUFFER_SIZE; the same holds of the index
\* between the append and the extraction.
C1_IndexWithinCapacity ==
    /\ 0 <= buffer_index /\ buffer_index <= BUFFER_SIZE
    /\ 0 <= last.avail /\ last.avail <= BUFFER_SIZE

\* C1 witness: a call failed inside libmp3lame while the buffer was full.
C1_Witness ==
    /\ last.err = "lame"
    /\ buffer_index = BUFFER_SIZE

\* C2: a call that does not fail hands back 0 bytes or exactly one frame:
\* a positive result L is the length declared by the header at the front of
\* the holding buffer, the frame is the first L buffered bytes, and L is at
\* most the number of bytes buffered at extraction time.
C2_OneFrameNoOverRead ==
    last.ret >= 0 =>
        \/ last.ret = 0 /\ last.frame = <<>>
        \/ /\ last.ret > 0
           /\ last.avail >= 4
           /\ avpriv_mpegaudio_decode_header(AV_RB32(last.held)) = 0
           /\ last.ret = hdr_frame_size(AV_RB32(last.held))
           /\ last.ret <= last.avail
           /\ last.frame = SubSeq(Held, 1, last.ret)

\* C2 witness: a 5-byte frame was handed back out of 8 buffered bytes.
C2_Witness ==
    /\ last.ret = 5
    /\ last.avail = 8

\* C3: after the extraction of a frame of length L the valid bytes of the
\* buffer are the bytes held just before the extraction without the first
\* L, and buffer_index has decreased by exactly L.
C3_ExtractionShifts ==
    last.ret > 0 =>
        /\ buffer_index = last.avail - last.ret
        /\ Valid(buffer, buffer_index)
             = SubSeq(Held, last.ret + 1, last.avail)

\* C3 witness: a frame was extracted and left two different bytes behind.
C3_Witness ==
    /\ last.ret > 0
    /\ buffer_index >= 2
    /\ buffer[0] # buffer[1]

\* C4: the frames handed back so far, followed by the valid bytes still in
\* the buffer, are the bytes libmp3lame wrote, in order.
C4_BitExact ==
    delivered \o Valid(buffer, buffer_index) = produced

\* C4 witness: a frame was handed back and bytes are still buffered.
C4_Witness ==
    /\ Len(delivered) >= 4
    /\ buffer_index >= 2

\* C5 as stated: with fewer than 4 bytes accumulated a call yields 0 bytes
\* and never an error.
C5_AsStated ==
    last.avail < 4 => (last.ret = 0 /\ last.err = "none")

\* C5 amended: with fewer than 4 bytes accumulated a call yields 0 bytes,
\* and the only error it can report is a negative result of libmp3lame.
C5_ShortBufferYieldsZero ==
    (last.avail < 4 /\ last.err # "lame") => (last.ret = 0 /\ last.err = "none")

\* C5 witness: 3 bytes are accumulated, the third a free-format bitrate
\* index, and the call yielded 0.
C5_Witness ==
    /\ last.avail = 3
    /\ last.held[2] = 0
    /\ last.ret = 0
    /\ last.err = "none"

\* The header at the front of the buffer is one the parser rejects.
FrontRejected ==
    /\ buffer_index >= 4
    /\ avpriv_mpegaudio_decode_header(AV_RB32(buffer)) # 0

\* C6 as stated: once DrainCalls consecutive flush calls found libmp3lame
\* with nothing more to write, each of them from the last of these on
\* yields 0 bytes and no error.
C6_AsStated ==
    drained >= DrainCalls => (last.ret = 0 /\ last.err = "none")

\* C6 amended: once DrainCalls consecutive flush calls found libmp3lame
\* with nothing more to write, each of them from the last of these on
\* yields 0 bytes and no error, unless the header at the front of the
\* buffer is one the parser rejects: then each of them fails.
C6_FlushDrains ==
    drained >= DrainCalls =>
        \/ last.ret = 0 /\ last.err = "none" /\ ~FrontRejected
        \/ last.ret = -1 /\ last.err = "header" /\ FrontRejected

\* C6 witness: two frames were handed back and further flushes yield 0.
C6_Witness ==
    /\ drained >= DrainCalls
    /\ last.ret = 0
    /\ Len(delivered) >= 8

\* C7: when init returns an error no handle is left allocated: none was
\* created for more than 2 channels, and a handle that was created has been
\* released exactly once.
C7_InitFailureReleasesHandle ==
    init_ret < 0 =>
        /\ gfp # "live"
        /\ (channels > 2 => lame_inits = 0)
        /\ lame_closes = lame_inits
        /\ coded_frame = "null"

\* C7 witness: init failed after the handle was created.
C7_Witness ==
    /\ phase = "failed"
    /\ lame_inits = 1
    /\ gfp = "closed"

\* C8: once a call has failed because the header was rejected, no later
\* call hands back a frame: the rejected header stays at the front of the
\* buffer.
C8_RejectIsHardStop ==
    rejected =>
        /\ last.ret <= 0
        /\ last.frame = <<>>
        /\ FrontRejected

\* C8 witness: after a rejection a later call got more bytes from
\* libmp3lame and failed on the header again.
C8_Witness ==
    /\ rejected
    /\ last.err = "header"
    /\ buffer_index = BUFFER_SIZE

\* C9: when a call fails because libmp3lame reported a negative result,
\* buffer_index and the valid bytes of the buffer are as before the call.
C9_LameErrorKeepsBuffer ==
    last.err = "lame" =>
        /\ buffer_index = last.avail
        /\ Valid(buffer, buffer_index) = Held

\* C9 witness: libmp3lame failed after writing into the free space, with
\* bytes buffered and no frame extracted yet.
C9_Witness ==
    /\ last.err = "lame"
    /\ delivered = <<>>
    /\ buffer_index \in 1..(BUFFER_SIZE - 1)
    /\ buffer[buffer_index] = 16
    /\ buffer[0] # buffer[buffer_index]

\* C10: a frame copied out is never longer than the buf_size passed.
C10_FrameFitsBufSize ==
    last.ret > 0 => last.ret <= last.buf_size

TypeOK ==
    /\ phase \in {"new", "open", "failed", "closed"}
    /\ channels \in 0..3
    /\ gfp \in {"null", "live", "closed"}
    /\ coded_frame \in {"null", "alloc"}
    /\ buffer \in [0..(BUFFER_SIZE - 1) -> Byte]
    /\ buffer_index \in 0..BUFFER_SIZE
    /\ drained \in 0..DrainCalls
    /\ rejected \in BOOLEAN
    /\ Len(produced) <= MaxProduced

====
